---- MODULE Spec2Model ----
(***************************************************************************)
(* Magic-link authentication views of MyFinances                           *)
(* (backend/core/views/auth/login.py).                                     *)
(*                                                                         *)
(* Each HTTP request is a process r in Requests, numbered in order of       *)
(* arrival.  The issue view and the verify page view run as one step.  The *)
(* accept and decline views run one database operation at a time (lookup,  *)
(* check, delete, log writes), so that the steps of concurrent requests    *)
(* interleave as they do between Django worker processes.                  *)
(***************************************************************************)
EXTENDS Integers, Sequences, FiniteSets, TLC

(* ------------------------------ bounds -------------------------------- *)
MaxRequests == 3        \* requests handled in one behaviour
MaxRecords  == 2        \* VerificationCodes rows ever created
MaxToken    == 2        \* plaintext tokens are drawn from 1..MaxToken
MaxTime     == 2        \* the clock runs over 0..MaxTime

Requests == 1..MaxRequests
Uuids    == 1..MaxRecords
Tokens   == 1..MaxToken

(* ------------------------- accounts (User table) ---------------------- *)
None      == "None"
Users     == {"alice", "bob", "carol"}
Emails    == {"alice@x", "bob@x", "carol@x", "nobody@x"}
UserEmail == [alice |-> "alice@x", bob |-> "bob@x", carol |-> "carol@x"]
IsActive  == [alice |-> TRUE, bob |-> TRUE, carol |-> FALSE]
SessionUsers == {None, "alice"}    \* request.user on arrival

(* User.objects.get(email=email); None stands for User.DoesNotExist *)
UserByEmail(email) ==
    IF \E u \in Users : UserEmail[u] = email
    THEN CHOOSE u \in Users : UserEmail[u] = email
    ELSE None

(* ------------------------------ messages ------------------------------ *)
MSG_INVALID    == "Invalid magic link"
MSG_EXPIRED    == "This link has expired"
MSG_GENERIC    == "If this is a valid email address, we have sent you an email! Keep this tab open!"
MSG_INACTIVE   == "This account is not currently active."
MSG_DECLINED   == "Successfully declined the magic link verification request."
MSG_ACCEPTED   == "Successfully accepted the magic link verification request."

NoResponse == [type |-> "none", to |-> "", level |-> "", message |-> ""]

(* redirect(to), with at most one message queued for the next page *)
Redirect(to, level, message) ==
    [type |-> "redirect", to |-> to, level |-> level, message |-> message]

(* render(request, template), with the message queued by messages.* *)
Render(template, level, message) ==
    [type |-> "render", to |-> template, level |-> level, message |-> message]

(* render_toast_message: render(request, "base/toasts.html") *)
render_toast_message(level, message) == Render("base/toasts.html", level, message)

(* send_message with the test on success inverted *)
send_message_Inverted(message, success) ==
    render_toast_message(IF success THEN "error" ELSE "success",
                         IF message = "" THEN MSG_GENERIC ELSE message)

(* send_message that always shows the generic acknowledgment *)
send_message_IgnoresMessage(message, success) ==
    render_toast_message(IF success THEN "success" ELSE "error", MSG_GENERIC)

(* MagicLinkRequestView.send_message with should_redirect=True: the toast  *)
(* carrying the message (the generic acknowledgment when none is given)    *)
send_message(message, success) ==
    render_toast_message(IF success THEN "success" ELSE "error",
                         IF message = "" THEN MSG_GENERIC ELSE message)

(* ---------------------- token hashing (django hashers) ---------------- *)
(* make_password is one-way and collision free on the token domain; it is *)
(* not the identity: a stored hash never equals a plaintext token.        *)
make_password(t) == 2 * t + 101

check_password(t, hash) == make_password(t) = hash

(* ------------------------ VerificationCodes --------------------------- *)
TTL == 1

(* VerificationCodes.is_active: the row is usable only while now < expiry *)
is_active(magic_link, t) == t < magic_link.expiry

(* ------------------------------ state --------------------------------- *)
VARIABLES
    now,         \* timezone.now()
    records,     \* VerificationCodes table: set of rows
    nextUuid,    \* number of rows created so far (uuid4 never repeats)
    auditLog,    \* AuditLog table, in insertion order
    loginLog,    \* LoginLog table, in insertion order
    outbox,      \* calls of send_email, each with whether the transport delivered
    pc,          \* position of each request in its view
    args,        \* inputs of each request
    session,     \* request.user of each request (None = anonymous)
    magic_link,  \* local variable magic_link of each request
    verdict,     \* local variables (magic_link_valid, magic_link_msg)
    user,        \* local variable user of each request
    plain_token, \* local variable plain_token of an issue request
    response,    \* the HttpResponse returned by each request
    late         \* history: the request arrived after its uuid was consumed

vars == <<now, records, nextUuid, auditLog, loginLog, outbox, pc, args,
          session, magic_link, verdict, user, plain_token, response, late>>

dbvars    == <<records, nextUuid, auditLog, loginLog, outbox>>
localvars == <<magic_link, verdict, user, plain_token>>

NoArgs == [view |-> "none", uuid |-> 0, token |-> 0, email |-> "", htmx |-> FALSE,
           password |-> "", next |-> "", emails_enabled |-> FALSE]
NoVerdict == <<FALSE, "unset">>

(* None where a VerificationCodes row is expected *)
NoLink == [uuid |-> 0, user |-> None, service |-> "", token |-> 0, expiry |-> 0]

(* get_magic_link without the service filter *)
get_magic_link_AnyService(uuid) ==
    IF \E m \in records : m.uuid = uuid
    THEN CHOOSE m \in records : m.uuid = uuid
    ELSE NoLink

(* get_magic_link: VerificationCodes.objects.get(uuid=uuid, service="login") *)
get_magic_link(uuid) ==
    IF \E m \in records : m.uuid = uuid /\ m.service = "login"
    THEN CHOOSE m \in records : m.uuid = uuid /\ m.service = "login"
    ELSE NoLink

(* is_magiclink_valid with the token compared before the expiry *)
is_magiclink_valid_TokenFirst(link, token, t) ==
    IF link = NoLink THEN <<FALSE, MSG_INVALID>>
    ELSE IF ~check_password(token, link.token) THEN <<FALSE, MSG_INVALID>>
    ELSE IF ~is_active(link, t) THEN <<FALSE, MSG_EXPIRED>>
    ELSE <<TRUE, "">>

(* is_magiclink_valid comparing the token with the stored hash directly *)
is_magiclink_valid_PlainCompare(link, token, t) ==
    IF link = NoLink THEN <<FALSE, MSG_INVALID>>
    ELSE IF ~is_active(link, t) THEN <<FALSE, MSG_EXPIRED>>
    ELSE IF token # link.token THEN <<FALSE, MSG_INVALID>>
    ELSE <<TRUE, "">>

(* is_magiclink_valid with a message of its own for a wrong token *)
is_magiclink_valid_OwnMessage(link, token, t) ==
    IF link = NoLink THEN <<FALSE, MSG_INVALID>>
    ELSE IF ~is_active(link, t) THEN <<FALSE, MSG_EXPIRED>>
    ELSE IF ~check_password(token, link.token) THEN <<FALSE, "Incorrect token">>
    ELSE <<TRUE, "">>

(* is_magiclink_valid(magic_link, token), evaluated at clock value t *)
is_magiclink_valid(link, token, t) ==
    IF link = NoLink THEN <<FALSE, MSG_INVALID>>
    ELSE IF ~is_active(link, t) THEN <<FALSE, MSG_EXPIRED>>
    ELSE IF ~check_password(token, link.token) THEN <<FALSE, MSG_INVALID>>
    ELSE <<TRUE, "">>

(* create_magic_link(user, service): a new row with a fresh uuid, a random *)
(* token stored hashed, and a fixed time to live                           *)
create_magic_link(u, service, plain) ==
    [uuid |-> nextUuid + 1, user |-> u, service |-> service,
     token |-> make_password(plain), expiry |-> now + TTL]

(* the email with the hash stored in the row in place of the plaintext token *)
send_magic_link_email_StoredToken(u, uuid, plain, delivered) ==
    [to |-> UserEmail[u], uuid |-> uuid, token |-> make_password(plain),
     delivered |-> delivered]

(* MagicLinkRequestView.send_magic_link_email: one call of send_email, to   *)
(* user.email, with the URL built from uuid and plain_token; delivered is   *)
(* the outcome of the transport, which the view does not look at            *)
send_magic_link_email(u, uuid, plain, delivered) ==
    [to |-> UserEmail[u], uuid |-> uuid, token |-> plain, delivered |-> delivered]

(* A row stored by another flow of the application under a service tag     *)
(* other than "login" (create_magic_link(user, service="reset_password"))  *)
OtherServiceRow ==
    [uuid |-> 1, user |-> "bob", service |-> "reset_password",
     token |-> make_password(1), expiry |-> TTL]

(* The server starts with no login rows; the table may already hold a row  *)
(* of another service.                                                     *)
Init ==
    /\ now = 0
    /\ \/ records = {} /\ nextUuid = 0
       \/ records = {OtherServiceRow} /\ nextUuid = 1
    /\ auditLog = <<>>
    /\ loginLog = <<>>
    /\ outbox = <<>>
    /\ pc = [r \in Requests |-> "idle"]
    /\ args = [r \in Requests |-> NoArgs]
    /\ session = [r \in Requests |-> None]
    /\ magic_link = [r \in Requests |-> NoLink]
    /\ verdict = [r \in Requests |-> NoVerdict]
    /\ user = [r \in Requests |-> None]
    /\ plain_token = [r \in Requests |-> 0]
    /\ response = [r \in Requests |-> NoResponse]
    /\ late = [r \in Requests |-> FALSE]

(* requests are numbered in order of arrival *)
CanArrive(r) == pc[r] = "idle" /\ (IF r = 1 THEN TRUE ELSE pc[r - 1] # "idle")

Succeeded(q) ==
    /\ pc[q] = "done"
    /\ args[q].view \in {"accept", "decline"}
    /\ response[q].to = "pages/auth/_magic_link_partial.html"

Consumed(uuid) == \E q \in Requests : Succeeded(q) /\ args[q].uuid = uuid

Finish(r, resp) ==
    /\ pc' = [pc EXCEPT ![r] = "done"]
    /\ response' = [response EXCEPT ![r] = resp]

(* A request arrives.  An input is recorded in args when the view reads it: *)
(* a field the view returns without reading keeps its NoArgs value and      *)
(* stands for every value the caller may have sent.                         *)
Arrive(r, a, su) ==
    /\ CanArrive(r)
    /\ args' = [args EXCEPT ![r] = a]
    /\ session' = [session EXCEPT ![r] = su]
    /\ late' = [late EXCEPT ![r] = a.uuid # 0 /\ Consumed(a.uuid)]

(* the clock advances *)
Tick ==
    /\ now < MaxTime
    /\ now' = now + 1
    /\ UNCHANGED <<dbvars, pc, args, session, localvars, response, late>>

(* MagicLinkRequestView.post: the whole handler *)
MagicLinkRequestView_post(r) ==
    \E su \in SessionUsers, htmx \in BOOLEAN :
      /\ now' = now
      /\ UNCHANGED <<auditLog, loginLog, verdict, user>>
      /\ IF su # None
         THEN /\ Arrive(r, [NoArgs EXCEPT !.view = "issue"], su)
              /\ Finish(r, Redirect("dashboard", "", ""))
              /\ UNCHANGED <<records, nextUuid, outbox, magic_link, plain_token>>
         ELSE IF ~htmx
         THEN /\ Arrive(r, [NoArgs EXCEPT !.view = "issue"], su)
              /\ Finish(r, Redirect("auth:login", "", ""))
              /\ UNCHANGED <<records, nextUuid, outbox, magic_link, plain_token>>
         ELSE \E email \in Emails :
              /\ Arrive(r, [NoArgs EXCEPT !.view = "issue", !.htmx = TRUE, !.email = email], su)
              /\ IF UserByEmail(email) = None
                 THEN /\ Finish(r, send_message("", TRUE))
                      /\ UNCHANGED <<records, nextUuid, outbox, magic_link, plain_token>>
                 ELSE IF ~IsActive[UserByEmail(email)]
                 THEN /\ Finish(r, send_message(MSG_INACTIVE, FALSE))
                      /\ UNCHANGED <<records, nextUuid, outbox, magic_link, plain_token>>
                 ELSE \E plain \in Tokens, sent \in BOOLEAN :
                      LET u == UserByEmail(email)
                          m == create_magic_link(u, "login", plain)
                      IN /\ nextUuid < MaxRecords
                         /\ records' = records \cup {m}
                         /\ nextUuid' = nextUuid + 1
                         /\ magic_link' = [magic_link EXCEPT ![r] = m]
                         /\ plain_token' = [plain_token EXCEPT ![r] = plain]
                         /\ outbox' = Append(outbox, send_magic_link_email(u, m.uuid, plain, sent))
                         /\ Finish(r, Render("pages/auth/magic_link_waiting.html",
                                             send_message("", TRUE).level,
                                             send_message("", TRUE).message))

(* the page view with the consuming lines of the handler active: a valid   *)
(* link is deleted and its owner logged in by the GET itself               *)
MagicLinkVerifyView_get_Consuming(r) ==
    \E su \in SessionUsers :
      /\ UNCHANGED <<now, nextUuid, auditLog, loginLog, outbox, user, plain_token>>
      /\ IF su # None
         THEN /\ Arrive(r, [NoArgs EXCEPT !.view = "verify"], su)
              /\ Finish(r, Redirect("dashboard", "", ""))
              /\ UNCHANGED <<records, magic_link, verdict>>
         ELSE \E uuid \in Uuids, token \in Tokens :
              LET link == get_magic_link(uuid)
                  v == is_magiclink_valid(link, token, now)
              IN /\ CanArrive(r)
                 /\ args' = [args EXCEPT ![r] = [NoArgs EXCEPT !.view = "verify", !.uuid = uuid, !.token = token]]
                 /\ late' = [late EXCEPT ![r] = Consumed(uuid)]
                 /\ magic_link' = [magic_link EXCEPT ![r] = link]
                 /\ verdict' = [verdict EXCEPT ![r] = v]
                 /\ IF ~v[1]
                    THEN /\ Finish(r, Redirect("auth:login", "error", v[2]))
                         /\ records' = records
                         /\ session' = [session EXCEPT ![r] = su]
                    ELSE /\ Finish(r, Render("pages/auth/magic_link_verify.html", "", ""))
                         /\ records' = {m \in records : m.uuid # link.uuid}
                         /\ session' = [session EXCEPT ![r] = link.user]

(* MagicLinkWaitingView.post: the whole handler *)
MagicLinkWaitingView_post(r) ==
    \E su \in SessionUsers, htmx \in BOOLEAN :
      /\ UNCHANGED <<now, dbvars, localvars>>
      /\ IF su # None
         THEN /\ Arrive(r, [NoArgs EXCEPT !.view = "waiting"], su)
              /\ Finish(r, Redirect("dashboard", "", ""))
         ELSE IF ~htmx
         THEN /\ Arrive(r, [NoArgs EXCEPT !.view = "waiting"], su)
              /\ Finish(r, Redirect("auth:login", "", ""))
         ELSE \E email \in Emails :
              /\ Arrive(r, [NoArgs EXCEPT !.view = "waiting", !.htmx = TRUE, !.email = email], su)
              /\ Finish(r, Render("pages/auth/magic_link_waiting.html", "", ""))

(* MagicLinkVerifyView.get: the whole handler (it only reads) *)
MagicLinkVerifyView_get(r) ==
    \E su \in SessionUsers :
      /\ UNCHANGED <<now, dbvars, user, plain_token>>
      /\ IF su # None
         THEN /\ Arrive(r, [NoArgs EXCEPT !.view = "verify"], su)
              /\ Finish(r, Redirect("dashboard", "", ""))
              /\ UNCHANGED <<magic_link, verdict>>
         ELSE \E uuid \in Uuids, token \in Tokens :
              LET link == get_magic_link(uuid)
                  v == is_magiclink_valid(link, token, now)
              IN /\ Arrive(r, [NoArgs EXCEPT !.view = "verify", !.uuid = uuid, !.token = token], su)
                 /\ magic_link' = [magic_link EXCEPT ![r] = link]
                 /\ verdict' = [verdict EXCEPT ![r] = v]
                 /\ IF ~v[1]
                    THEN Finish(r, Redirect("auth:login", "error", v[2]))
                    ELSE Finish(r, Render("pages/auth/magic_link_verify.html", "", ""))

(* accept and decline with "and" for "or" in the guard on the caller *)
ResolvePost_AndGuard(r, view) ==
    \E su \in SessionUsers, htmx \in BOOLEAN :
      /\ UNCHANGED <<now, dbvars, verdict, user, plain_token>>
      /\ IF su # None /\ ~htmx
         THEN /\ Arrive(r, [NoArgs EXCEPT !.view = view], su)
              /\ Finish(r, Redirect("dashboard", "", ""))
              /\ UNCHANGED magic_link
         ELSE \E uuid \in Uuids, token \in Tokens :
              /\ Arrive(r, [NoArgs EXCEPT !.view = view, !.htmx = htmx, !.uuid = uuid, !.token = token], su)
              /\ magic_link' = [magic_link EXCEPT ![r] = get_magic_link(uuid)]
              /\ pc' = [pc EXCEPT ![r] = "check"]
              /\ UNCHANGED response

(* MagicLinkVerifyDecline.post and MagicLinkVerifyAccept.post up to        *)
(* magic_link = get_magic_link(uuid)                                       *)
ResolvePost(r, view) ==
    \E su \in SessionUsers, htmx \in BOOLEAN :
      /\ UNCHANGED <<now, dbvars, verdict, user, plain_token>>
      /\ IF su # None \/ ~htmx
         THEN /\ Arrive(r, [NoArgs EXCEPT !.view = view, !.htmx = (su = None /\ htmx)], su)
              /\ Finish(r, Redirect("dashboard", "", ""))
              /\ UNCHANGED magic_link
         ELSE \E uuid \in Uuids, token \in Tokens :
              /\ Arrive(r, [NoArgs EXCEPT !.view = view, !.htmx = TRUE, !.uuid = uuid, !.token = token], su)
              /\ magic_link' = [magic_link EXCEPT ![r] = get_magic_link(uuid)]
              /\ pc' = [pc EXCEPT ![r] = "check"]
              /\ UNCHANGED response

MagicLinkVerifyDecline_post(r) == ResolvePost(r, "decline")

MagicLinkVerifyAccept_post(r) == ResolvePost(r, "accept")

(* the check step with "and" for "or" in the guard of the views *)
IsMagicLinkValid_AndGuard(r) ==
    /\ pc[r] = "check"
    /\ LET v == is_magiclink_valid(magic_link[r], args[r].token, now)
       IN /\ verdict' = [verdict EXCEPT ![r] = v]
          /\ IF ~v[1] /\ magic_link[r] = NoLink
             THEN Finish(r, render_toast_message("error", v[2]))
             ELSE pc' = [pc EXCEPT ![r] = "delete"] /\ UNCHANGED response
    /\ UNCHANGED <<now, dbvars, args, session, magic_link, user, plain_token, late>>

(* the check step trusting the page view for the expiry: only the token is *)
(* checked again                                                           *)
IsMagicLinkValid_TokenOnly(r) ==
    /\ pc[r] = "check"
    /\ LET v == IF magic_link[r] # NoLink /\ check_password(args[r].token, magic_link[r].token)
                THEN <<TRUE, "">>
                ELSE <<FALSE, MSG_INVALID>>
       IN /\ verdict' = [verdict EXCEPT ![r] = v]
          /\ IF ~v[1] \/ magic_link[r] = NoLink
             THEN Finish(r, render_toast_message("error", v[2]))
             ELSE pc' = [pc EXCEPT ![r] = "delete"] /\ UNCHANGED response
    /\ UNCHANGED <<now, dbvars, args, session, magic_link, user, plain_token, late>>

(* the check step removing a row it finds expired *)
IsMagicLinkValid_PurgeExpired(r) ==
    /\ pc[r] = "check"
    /\ LET v == is_magiclink_valid(magic_link[r], args[r].token, now)
       IN /\ verdict' = [verdict EXCEPT ![r] = v]
          /\ records' = IF v = <<FALSE, MSG_EXPIRED>>
                        THEN {m \in records : m.uuid # magic_link[r].uuid}
                        ELSE records
          /\ IF ~v[1] \/ magic_link[r] = NoLink
             THEN Finish(r, render_toast_message("error", v[2]))
             ELSE pc' = [pc EXCEPT ![r] = "delete"] /\ UNCHANGED response
    /\ UNCHANGED <<now, nextUuid, auditLog, loginLog, outbox, args, session,
                   magic_link, user, plain_token, late>>

(* accept and decline: magic_link_valid, magic_link_msg =                   *)
(* is_magiclink_valid(magic_link, token), and the branch on the result      *)
IsMagicLinkValid(r) ==
    /\ pc[r] = "check"
    /\ LET v == is_magiclink_valid(magic_link[r], args[r].token, now)
       IN /\ verdict' = [verdict EXCEPT ![r] = v]
          /\ IF ~v[1] \/ magic_link[r] = NoLink
             THEN Finish(r, render_toast_message("error", v[2]))
             ELSE pc' = [pc EXCEPT ![r] = "delete"] /\ UNCHANGED response
    /\ UNCHANGED <<now, dbvars, args, session, magic_link, user, plain_token, late>>

(* the delete step without magic_link.delete() *)
Delete_Forgotten(r) ==
    /\ pc[r] = "delete"
    /\ user' = [user EXCEPT ![r] = magic_link[r].user]
    /\ records' = records
    /\ pc' = [pc EXCEPT ![r] = IF args[r].view = "accept" THEN "loginlog" ELSE "audit"]
    /\ UNCHANGED <<now, nextUuid, auditLog, loginLog, outbox, args, session,
                   magic_link, verdict, plain_token, response, late>>

(* the delete step removing every row of the owner *)
Delete_AllOfUser(r) ==
    /\ pc[r] = "delete"
    /\ user' = [user EXCEPT ![r] = magic_link[r].user]
    /\ records' = {m \in records : m.user # magic_link[r].user}
    /\ pc' = [pc EXCEPT ![r] = IF args[r].view = "accept" THEN "loginlog" ELSE "audit"]
    /\ UNCHANGED <<now, nextUuid, auditLog, loginLog, outbox, args, session,
                   magic_link, verdict, plain_token, response, late>>

(* user = magic_link.user; magic_link.delete()                              *)
(* Model.delete() issues DELETE ... WHERE id = pk: deleting a row that is   *)
(* already gone removes nothing and raises nothing                          *)
Delete(r) ==
    /\ pc[r] = "delete"
    /\ user' = [user EXCEPT ![r] = magic_link[r].user]
    /\ records' = {m \in records : m.uuid # magic_link[r].uuid}
    /\ pc' = [pc EXCEPT ![r] = IF args[r].view = "accept" THEN "loginlog" ELSE "audit"]
    /\ UNCHANGED <<now, nextUuid, auditLog, loginLog, outbox, args, session,
                   magic_link, verdict, plain_token, response, late>>

(* LoginLog.objects.create(user=user, service=LoginLog.ServiceTypes.MAGIC_LINK) *)
LoginLogCreate(r) ==
    /\ pc[r] = "loginlog"
    /\ loginLog' = Append(loginLog, [user |-> user[r], service |-> "MAGIC_LINK"])
    /\ pc' = [pc EXCEPT ![r] = "audit"]
    /\ UNCHANGED <<now, records, nextUuid, auditLog, outbox, args, session,
                   localvars, response, late>>

(* the last step with login() called by the decline view too *)
AuditLogCreate_LoginOnDecline(r) ==
    /\ pc[r] = "audit"
    /\ UNCHANGED <<now, records, nextUuid, loginLog, outbox, args, localvars, late>>
    /\ session' = [session EXCEPT ![r] = magic_link[r].user]
    /\ IF args[r].view = "accept"
       THEN /\ auditLog' = Append(auditLog, [user |-> user[r], action |-> "magic link accepted"])
            /\ Finish(r, Render("pages/auth/_magic_link_partial.html", "success", MSG_ACCEPTED))
       ELSE /\ auditLog' = Append(auditLog, [user |-> user[r], action |-> "magic link declined"])
            /\ Finish(r, Render("pages/auth/_magic_link_partial.html", "success", MSG_DECLINED))

(* AuditLog.objects.create(user=user, action=...) and the rest of the view: *)
(* accept calls login(request, magic_link.user); both return the partial    *)
AuditLogCreate(r) ==
    /\ pc[r] = "audit"
    /\ UNCHANGED <<now, records, nextUuid, loginLog, outbox, args, localvars, late>>
    /\ IF args[r].view = "accept"
       THEN /\ auditLog' = Append(auditLog, [user |-> user[r], action |-> "magic link accepted"])
            /\ session' = [session EXCEPT ![r] = magic_link[r].user]
            /\ Finish(r, Render("pages/auth/_magic_link_partial.html", "success", MSG_ACCEPTED))
       ELSE /\ auditLog' = Append(auditLog, [user |-> user[r], action |-> "magic link declined"])
            /\ session' = session
            /\ Finish(r, Render("pages/auth/_magic_link_partial.html", "success", MSG_DECLINED))

Next ==
    \/ Tick
    \/ \E r \in Requests : MagicLinkRequestView_post(r)
    \/ \E r \in Requests : MagicLinkVerifyView_get(r)
    \/ \E r \in Requests : MagicLinkVerifyDecline_post(r)
    \/ \E r \in Requests : MagicLinkVerifyAccept_post(r)
    \/ \E r \in Requests : IsMagicLinkValid(r)
    \/ \E r \in Requests : Delete(r)
    \/ \E r \in Requests : LoginLogCreate(r)
    \/ \E r \in Requests : AuditLogCreate(r)

Spec == Init /\ [][Next]_vars

(* the five magic-link endpoints together *)
NextEndpoints ==
    \/ Next
    \/ \E r \in Requests : MagicLinkWaitingView_post(r)

SpecEndpoints == Init /\ [][NextEndpoints]_vars


(* =========================== login_manual ============================= *)
MSG_ENTER_EMAIL == "Please enter an email"

MSG_VALID_EMAIL == "Please enter a valid email"

MSG_ENTER_PASSWORD == "Please enter a password"

MSG_INCORRECT == "Incorrect email or password"

MSG_MUST_VERIFY == "You must verify your email before logging in."

MSG_CHANGE_PASSWORD ==
    "You have been requested by an administrator to change your account password."

(* request.POST.get("email"): missing, malformed, or one of the addresses *)
PostedEmails == Emails \cup {"", "not-an-email"}

(* request.POST.get("password"): missing, the password of the account, or *)
(* another one                                                            *)
PostedPasswords == {"", "pw", "wrong"}

UserPassword == [u \in Users |-> "pw"]

(* request.POST.get("next", ""): missing, a local path with a route, a     *)
(* local path without one, a URL on another host                          *)
NextUrls == {"", "/dashboard/invoices/", "/no/such/route/", "https://evil.example/"}

UrlHost(url) == IF url = "https://evil.example/" THEN "evil.example" ELSE ""

UrlScheme(url) == IF url = "https://evil.example/" THEN "https" ELSE ""

(* user.awaiting_email_verification and user.require_change_password *)
AwaitingEmailVerification == [alice |-> FALSE, bob |-> TRUE, carol |-> FALSE]

RequireChangePassword == [alice |-> FALSE, bob |-> TRUE, carol |-> FALSE]

(* django.core.validators.validate_email: raises ValidationError unless    *)
(* the string is a well-formed address                                     *)
validate_email(email) == email \in Emails

(* django.contrib.auth.authenticate: the account with this email, if the   *)
(* password is its password, else None.  Whether the backend of the        *)
(* project turns an inactive account away is not decided by this file:     *)
(* both outcomes are kept                                                  *)
authenticate(email, password) ==
    LET u == UserByEmail(email)
    IN IF u = None THEN {None}
       ELSE IF password # UserPassword[u] THEN {None}
       ELSE IF IsActive[u] THEN {u}
       ELSE {u, None}

(* django.urls.reverse: the path of a named route *)
reverse(viewname) ==
    IF viewname = "dashboard" THEN "/dashboard/"
    ELSE IF viewname = "auth:login" THEN "/auth/login/"
    ELSE "/settings/change_password/"

(* django.urls.resolve: succeeds on the paths that have a route *)
resolve(url) ==
    url \in {"/dashboard/", "/auth/login/", "/settings/change_password/",
             "/dashboard/invoices/"}

(* django.utils.http.url_has_allowed_host_and_scheme(url, allowed_hosts):  *)
(* false for the empty string; the host must be absent or allowed, the     *)
(* scheme absent or http(s), and a scheme without a host is refused        *)
url_has_allowed_host_and_scheme(url, allowed_hosts) ==
    /\ url # ""
    /\ UrlHost(url) = "" \/ UrlHost(url) \in allowed_hosts
    /\ UrlScheme(url) = "" \/ UrlScheme(url) \in {"http", "https"}
    /\ ~(UrlHost(url) = "" /\ UrlScheme(url) # "")

(* redirect_to_login passing the next value on as it came *)
redirect_to_login_Unsanitized(email, redirect_url) ==
    Redirect(reverse("auth:login") \o "?email=" \o email \o "&next=" \o redirect_url,
             "", "")

(* redirect_to_login(email, redirect_url) *)
redirect_to_login(email, redirect_url) ==
    LET url == IF ~url_has_allowed_host_and_scheme(redirect_url, {})
               THEN reverse("dashboard")
               ELSE redirect_url
    IN Redirect(reverse("auth:login") \o "?email=" \o email \o "&next=" \o url, "", "")

(* the test of line 71 never turning a caller away *)
must_verify_email_Never(u, emails_enabled) == FALSE

(* user.awaiting_email_verification and ARE_EMAILS_ENABLED *)
must_verify_email(u, emails_enabled) ==
    AwaitingEmailVerification[u] /\ emails_enabled

(* messages.error(request, message); return redirect_to_login(...) *)
LoginFails(r, a, u, email, message) ==
    /\ args' = [args EXCEPT ![r] = a]
    /\ session' = [session EXCEPT ![r] = None]
    /\ user' = [user EXCEPT ![r] = u]
    /\ Finish(r, [redirect_to_login(email, a.next) EXCEPT !.level = "error",
                                                          !.message = message])

(* login(request, user) and the choice of the page to go to *)
LoginSucceeds(r, a, u) ==
    /\ args' = [args EXCEPT ![r] = a]
    /\ session' = [session EXCEPT ![r] = u]
    /\ user' = [user EXCEPT ![r] = u]
    /\ IF RequireChangePassword[u]
       THEN Finish(r, Redirect("settings:change_password", "warning", MSG_CHANGE_PASSWORD))
       ELSE IF url_has_allowed_host_and_scheme(a.next, {})
       THEN IF resolve(a.next)
            THEN Finish(r, Redirect(a.next, "", ""))
            ELSE Finish(r, Redirect("dashboard", "", ""))
       ELSE Finish(r, Redirect("dashboard", "", ""))

(* login_manual: the whole handler, for a POST of an anonymous caller.     *)
(* ARE_EMAILS_ENABLED is a setting of the deployment, read at line 71 when *)
(* the account awaits verification; both values are kept                   *)
login_manual(r) ==
    /\ CanArrive(r)
    /\ UNCHANGED <<now, dbvars, magic_link, verdict, plain_token, late>>
    /\ \E email \in PostedEmails, password \in PostedPasswords, next \in NextUrls :
         LET a == [NoArgs EXCEPT !.view = "login_manual", !.email = email,
                                 !.password = password, !.next = next]
         IN IF email = ""
            THEN LoginFails(r, a, None, "", MSG_ENTER_EMAIL)
            ELSE IF ~validate_email(email)
            THEN LoginFails(r, a, None, "", MSG_VALID_EMAIL)
            ELSE IF password = ""
            THEN LoginFails(r, a, None, email, MSG_ENTER_PASSWORD)
            ELSE \E u \in authenticate(email, password) :
                 IF u = None
                 THEN LoginFails(r, a, None, email, MSG_INCORRECT)
                 ELSE IF ~AwaitingEmailVerification[u]
                 THEN LoginSucceeds(r, a, u)
                 ELSE \E emails_enabled \in BOOLEAN :
                      LET b == [a EXCEPT !.emails_enabled = emails_enabled]
                      IN IF must_verify_email(u, emails_enabled)
                         THEN LoginFails(r, b, u, email, MSG_MUST_VERIFY)
                         ELSE LoginSucceeds(r, b, u)

InitLogin == Init /\ records = {}

NextLogin == \E r \in Requests : login_manual(r)

SpecLogin == InitLogin /\ [][NextLogin]_vars

(* ============================== properties ============================ *)
PassedGuard(r) == args[r].view \in {"verify", "accept", "decline"} /\ args[r].uuid # 0

Resolving(r) == args[r].view \in {"accept", "decline"} /\ args[r].uuid # 0

(* request r calls is_magiclink_valid in this step: the check step of accept *)
(* and decline, or the verify page view past its guard                       *)
Checks(r) ==
    \/ pc[r] = "check" /\ pc'[r] # "check"
    \/ pc[r] = "idle" /\ pc'[r] = "done" /\ args'[r].view = "verify" /\ args'[r].uuid # 0

(* request r arrives and runs its view up to the first database access *)
Arrives(r) == pc[r] = "idle" /\ pc'[r] # "idle"

(* the issue request that created the row with this uuid *)
IssuedBy(q, uuid) ==
    /\ args[q].view = "issue"
    /\ pc[q] = "done"
    /\ magic_link[q] # NoLink
    /\ magic_link[q].uuid = uuid

Rejected(r, message) ==
    /\ pc[r] = "done"
    /\ response[r].level = "error"
    /\ response[r].message = message
    /\ response[r].to = IF args[r].view = "verify" THEN "auth:login" ELSE "base/toasts.html"

(* C1: of the accept/decline requests that address the same record, at most *)
(* one succeeds, however their steps interleave.                            *)
C1_AtMostOneSucceeds ==
    \A q1, q2 \in Requests :
        Succeeded(q1) /\ Succeeded(q2) /\ args[q1].uuid = args[q2].uuid => q1 = q2

(* C2: single use.  A verify, accept or decline request that gets past the  *)
(* guard of its view after an accept or decline of the same identifier has  *)
(* succeeded finds no row, is answered "Invalid magic link" (never the      *)
(* expiry message, never a success) and establishes no session, whatever    *)
(* token it presents and whatever the clock shows.                          *)
C2_SingleUse ==
    \A r \in Requests :
        late[r] =>
            /\ magic_link[r] = NoLink
            /\ session[r] = None
            /\ pc[r] = "done" => Rejected(r, MSG_INVALID)

(* a later accept with the right token of the consumed row *)
C2_Witness ==
    \E r, q \in Requests :
        /\ late[r] /\ pc[r] = "done" /\ args[r].view = "accept"
        /\ IssuedBy(q, args[r].uuid)
        /\ args[r].token = plain_token[q]
        /\ now < magic_link[q].expiry

(* C3: whenever is_magiclink_valid is called on an existing row at or after *)
(* its expiry, it returns (False, "This link has expired") and the request  *)
(* is answered with that message, whether or not the token matches.         *)
C3_ExpiryBeforeToken ==
    [][\A r \in Requests :
          Checks(r) /\ magic_link'[r] # NoLink /\ now >= magic_link'[r].expiry =>
              /\ verdict'[r] = <<FALSE, MSG_EXPIRED>>
              /\ Rejected(r, MSG_EXPIRED)']_vars

C3_Witness ==
    \E r1, r2 \in Requests :
        /\ Rejected(r1, MSG_EXPIRED) /\ Rejected(r2, MSG_EXPIRED)
        /\ magic_link[r1] # NoLink /\ magic_link[r2] # NoLink
        /\ check_password(args[r1].token, magic_link[r1].token)
        /\ ~check_password(args[r2].token, magic_link[r2].token)

(* C4: whenever is_magiclink_valid is called on an existing login row       *)
(* before its expiry with the plaintext token the issue request generated   *)
(* for that row, it returns (True, "").                                     *)
C4_ValidBeforeExpiry ==
    [][\A r, q \in Requests :
          /\ Checks(r)
          /\ magic_link'[r] # NoLink
          /\ IssuedBy(q, magic_link'[r].uuid)
          /\ args'[r].token = plain_token[q]
          /\ now < magic_link'[r].expiry
          => verdict'[r] = <<TRUE, "">>]_vars

(* a verify page view at the very clock value of the issue is valid *)
C4_Witness ==
    \E r, q \in Requests :
        /\ IssuedBy(q, args[r].uuid)
        /\ args[r].view = "verify" /\ pc[r] = "done"
        /\ args[r].token = plain_token[q]
        /\ magic_link[r].expiry = now + TTL
        /\ verdict[r] = <<TRUE, "">>
        /\ response[r].to = "pages/auth/magic_link_verify.html"

(* C5: anti-enumeration.  A request that presents a wrong token for an      *)
(* existing, unexpired row gets the same (valid, reason) pair and the same  *)
(* response as every request of the same view that found no row at all.     *)
C5_AntiEnumeration ==
    [][\A r, r2 \in Requests :
          /\ Checks(r)
          /\ magic_link'[r] # NoLink
          /\ now < magic_link'[r].expiry
          /\ ~check_password(args'[r].token, magic_link'[r].token)
          /\ pc[r2] = "done" /\ PassedGuard(r2) /\ magic_link[r2] = NoLink
          /\ args[r2].view = args'[r].view
          => /\ verdict'[r] = verdict[r2]
             /\ pc'[r] = "done"
             /\ response'[r] = response[r2]]_vars

C5_Witness ==
    \E r, r2 \in Requests :
        /\ pc[r] = "done" /\ pc[r2] = "done"
        /\ args[r].view = "accept" /\ args[r2].view = "accept"
        /\ PassedGuard(r) /\ PassedGuard(r2)
        /\ magic_link[r] # NoLink /\ magic_link[r2] = NoLink
        /\ ~check_password(args[r].token, magic_link[r].token)
        /\ verdict[r] = <<FALSE, MSG_INVALID>>
        /\ response[r] = response[r2]

(* C6: a request whose identifier names no row with service "login" (no row *)
(* at all, or only a row of another service) gets None from get_magic_link, *)
(* (False, "Invalid magic link") from is_magiclink_valid, and that message. *)
C6_MissingIsInvalid ==
    /\ [][\A r \in Requests :
            /\ Arrives(r) /\ PassedGuard(r)'
            /\ ~\E m \in records : m.uuid = args'[r].uuid /\ m.service = "login"
            => magic_link'[r] = NoLink]_vars
    /\ [][\A r \in Requests :
            Checks(r) /\ magic_link'[r] = NoLink =>
                /\ verdict'[r] = <<FALSE, MSG_INVALID>>
                /\ Rejected(r, MSG_INVALID)']_vars

(* the identifier presented names a row of another service *)
C6_Witness ==
    \E r \in Requests :
        /\ OtherServiceRow \in records
        /\ args[r].uuid = OtherServiceRow.uuid
        /\ check_password(args[r].token, OtherServiceRow.token)
        /\ Rejected(r, MSG_INVALID)
        /\ verdict[r] = <<FALSE, MSG_INVALID>>

(* C7: after a successful decline the row is gone and the request has no    *)
(* session; after a successful accept the row is gone and the request's     *)
(* session belongs to the owner of the row, the account whose email the     *)
(* link was issued for.                                                     *)
C7_DeclineNoSessionAcceptOwner ==
    \A r \in Requests :
        Succeeded(r) =>
            /\ ~\E m \in records : m.uuid = args[r].uuid
            /\ args[r].view = "decline" => session[r] = None
            /\ args[r].view = "accept" =>
                  /\ session[r] = magic_link[r].user
                  /\ session[r] \in Users
                  /\ \A q \in Requests :
                        IssuedBy(q, args[r].uuid) => session[r] = UserByEmail(args[q].email)

C7_Witness ==
    \E r1, r2, q1, q2 \in Requests :
        /\ Succeeded(r1) /\ args[r1].view = "decline" /\ IssuedBy(q1, args[r1].uuid)
        /\ Succeeded(r2) /\ args[r2].view = "accept" /\ IssuedBy(q2, args[r2].uuid)
        /\ session[r2] = "bob"

(* C8: accept and decline are guarded.  A request that found no row, or     *)
(* whose row has expired, or whose token does not match, ends at the check  *)
(* with an error toast; neither its arrival nor its check deletes a row,    *)
(* writes a log entry or changes its session.                               *)
C8_Guarded ==
    /\ [][\A r \in Requests :
            Arrives(r) /\ Resolving(r)' =>
                /\ UNCHANGED <<records, auditLog, loginLog>>
                /\ session'[r] = None]_vars
    /\ [][\A r \in Requests :
            /\ Checks(r) /\ Resolving(r)
            /\ \/ magic_link[r] = NoLink
               \/ now >= magic_link[r].expiry
               \/ ~check_password(args[r].token, magic_link[r].token)
            => /\ pc'[r] = "done"
               /\ response'[r].to = "base/toasts.html"
               /\ response'[r].level = "error"
               /\ response'[r].message \in {MSG_INVALID, MSG_EXPIRED}
               /\ UNCHANGED <<records, auditLog, loginLog, session>>]_vars

(* an accept of an expired row with its right token, and a decline of an *)
(* identifier that names no row: the row is still there, the logs empty   *)
C8_Witness ==
    \E r1, r2 \in Requests :
        /\ args[r1].view = "decline" /\ args[r1].uuid # 0
        /\ Rejected(r1, MSG_INVALID) /\ magic_link[r1] = NoLink
        /\ args[r2].view = "accept" /\ Rejected(r2, MSG_EXPIRED)
        /\ check_password(args[r2].token, magic_link[r2].token)
        /\ magic_link[r2] \in records
        /\ session[r2] = None
        /\ auditLog = <<>> /\ loginLog = <<>>

(* C9: an issue request (htmx, anonymous) for an email of no account creates *)
(* no row, sends no email and answers with the generic success toast.        *)
C9_UnknownEmail ==
    [][\A r \in Requests :
          /\ Arrives(r) /\ args'[r].view = "issue" /\ args'[r].email # ""
          /\ UserByEmail(args'[r].email) = None
          => /\ UNCHANGED <<records, nextUuid, outbox>>
             /\ pc'[r] = "done"
             /\ response'[r] = Render("base/toasts.html", "success", MSG_GENERIC)]_vars

C9_Witness ==
    \E r \in Requests :
        /\ pc[r] = "done" /\ args[r].view = "issue" /\ args[r].email = "nobody@x"
        /\ response[r].message = MSG_GENERIC

(* C10: an issue request (htmx, anonymous) for the email of an inactive      *)
(* account creates no row, sends no email and answers with the error toast   *)
(* "This account is not currently active.", which is not the generic text.   *)
C10_InactiveAccount ==
    [][\A r \in Requests :
          /\ Arrives(r) /\ args'[r].view = "issue" /\ args'[r].email # ""
          /\ UserByEmail(args'[r].email) # None
          /\ ~IsActive[UserByEmail(args'[r].email)]
          => /\ UNCHANGED <<records, nextUuid, outbox>>
             /\ pc'[r] = "done"
             /\ response'[r] = Render("base/toasts.html", "error", MSG_INACTIVE)
             /\ response'[r].message # MSG_GENERIC]_vars

C10_Witness ==
    \E r \in Requests :
        /\ pc[r] = "done" /\ args[r].view = "issue" /\ args[r].email = "carol@x"
        /\ response[r].message = MSG_INACTIVE

(* C11: the verify page view and is_magiclink_valid change nothing: a step  *)
(* in which a request runs the page view, or calls is_magiclink_valid,      *)
(* leaves the rows, the audit log, the login log and the outbox as they     *)
(* were and leaves every session as it was (the caller of a page view past  *)
(* the guard stays anonymous); and the page view evaluated again in the     *)
(* state it leaves behind, same identifier, same token, same clock, returns *)
(* the verdict it has just returned.                                        *)
C11_VerifyIsPure ==
    [][\A r \in Requests :
          /\ Checks(r) =>
                /\ UNCHANGED <<records, nextUuid, auditLog, loginLog, outbox, now>>
                /\ \A q \in Requests : q # r => session'[q] = session[q]
                /\ session'[r] = None
          /\ Checks(r) /\ args'[r].view = "verify" =>
                (verdict[r] = is_magiclink_valid(get_magic_link(args[r].uuid),
                                                 args[r].token, now))'
          /\ Arrives(r) /\ args'[r].view = "verify" /\ args'[r].uuid = 0 =>
                /\ UNCHANGED <<records, nextUuid, auditLog, loginLog, outbox, now>>
                /\ \A q \in Requests : q # r => session'[q] = session[q]
                /\ session'[r] # None]_vars

(* the same valid link viewed twice: same answer, the row still there,      *)
(* nothing logged                                                           *)
C11_Witness ==
    \E r1, r2, q \in Requests :
        /\ r1 < r2
        /\ args[r1].view = "verify" /\ args[r2].view = "verify"
        /\ pc[r1] = "done" /\ pc[r2] = "done"
        /\ IssuedBy(q, args[r1].uuid)
        /\ args[r1].uuid = args[r2].uuid /\ args[r1].token = args[r2].token
        /\ verdict[r1] = <<TRUE, "">> /\ verdict[r2] = <<TRUE, "">>
        /\ response[r1] = response[r2]
        /\ magic_link[q] \in records
        /\ auditLog = <<>> /\ loginLog = <<>>

(* the send_email call of issue request q did not deliver *)
SendFailed(q) ==
    /\ args[q].view = "issue" /\ pc[q] = "done" /\ magic_link[q] # NoLink
    /\ \E i \in 1..Len(outbox) :
          outbox[i].uuid = magic_link[q].uuid /\ ~outbox[i].delivered

(* some accept or decline has run magic_link.delete() on this uuid *)
DeletedByResolver(uuid) ==
    \E q \in Requests :
        /\ Resolving(q) /\ args[q].uuid = uuid
        /\ verdict[q][1]
        /\ pc[q] \in {"loginlog", "audit", "done"}

(* C12: an issue request for an active account whose email send failed has  *)
(* been answered with a failure, and the row it created before the send     *)
(* stays in the table, with the fields it was created with, until an accept *)
(* or a decline deletes it.                                                 *)
C12_SendFailureReported ==
    \A q \in Requests :
        SendFailed(q) =>
            /\ response[q].level = "error"
            /\ magic_link[q] \in records \/ DeletedByResolver(magic_link[q].uuid)

(* request r is an issue request that gets past both guards of the view in *)
(* this step, for the email of an existing active account                  *)
IssuesForActive(r) ==
    /\ Arrives(r)
    /\ args'[r].view = "issue" /\ args'[r].htmx /\ session'[r] = None
    /\ UserByEmail(args'[r].email) # None
    /\ IsActive[UserByEmail(args'[r].email)]

(* C13: an issue request by an anonymous htmx caller for the email of an    *)
(* existing active account adds exactly one row and removes none; the row   *)
(* has a fresh identifier, service "login" and that account as owner; and   *)
(* the request makes exactly one send_email call, addressed to the email of *)
(* that account, carrying the identifier of the new row and a token whose   *)
(* hash is the one stored in the new row.                                   *)
C13_OneRecordOneEmail ==
    [][\A r \in Requests :
          IssuesForActive(r) =>
              LET u == UserByEmail(args'[r].email)
                  m == magic_link'[r]
                  e == outbox'[Len(outbox')]
              IN /\ records' = records \cup {m}
                 /\ m \notin records
                 /\ \A old \in records : old.uuid # m.uuid
                 /\ m.service = "login" /\ m.user = u
                 /\ Len(outbox') = Len(outbox) + 1
                 /\ SubSeq(outbox', 1, Len(outbox)) = outbox
                 /\ e.to = UserEmail[u]
                 /\ e.uuid = m.uuid
                 /\ e.token = plain_token'[r]
                 /\ check_password(e.token, m.token)]_vars

(* two issue requests for the same account: two rows, two emails, each     *)
(* email with the identifier and token of its own row                      *)
C13_Witness ==
    \E q1, q2 \in Requests :
        /\ q1 < q2
        /\ args[q1].email = "alice@x" /\ args[q2].email = "alice@x"
        /\ magic_link[q1] \in records /\ magic_link[q2] \in records
        /\ IssuedBy(q1, 1) /\ IssuedBy(q2, 2)
        /\ plain_token[q1] # plain_token[q2]
        /\ Len(outbox) = 2
        /\ outbox[1] = [to |-> "alice@x", uuid |-> 1, token |-> plain_token[q1],
                        delivered |-> TRUE]
        /\ outbox[2] = [to |-> "alice@x", uuid |-> 2, token |-> plain_token[q2],
                        delivered |-> TRUE]

(* the page view of request v found this identifier and token valid *)
ViewedValid(v, uuid, token) ==
    /\ args[v].view = "verify" /\ pc[v] = "done"
    /\ args[v].uuid = uuid /\ args[v].token = token
    /\ verdict[v] = <<TRUE, "">>

(* C14: accept and decline check the link again.  When a page view found    *)
(* the link valid and the clock has reached the expiry of the row by the    *)
(* time an accept or decline with the same identifier and token runs its    *)
(* check, that request is answered "This link has expired", the row is not  *)
(* deleted, nothing is logged and no session is established.                *)
C14_RevalidatedOnResolve ==
    [][\A r, v \in Requests :
          /\ pc[r] = "check" /\ pc'[r] # "check"
          /\ ViewedValid(v, args[r].uuid, args[r].token)
          /\ magic_link[r] # NoLink
          /\ now >= magic_link[r].expiry
          => /\ Rejected(r, MSG_EXPIRED)'
             /\ verdict'[r] = <<FALSE, MSG_EXPIRED>>
             /\ UNCHANGED <<records, auditLog, loginLog>>
             /\ session'[r] = None]_vars

(* valid on the page, expired at the accept: the row is still in the table *)
C14_Witness ==
    \E r, v, q \in Requests :
        /\ ViewedValid(v, args[r].uuid, args[r].token)
        /\ IssuedBy(q, args[r].uuid)
        /\ args[r].token = plain_token[q]
        /\ args[r].view = "accept"
        /\ Rejected(r, MSG_EXPIRED)
        /\ session[r] = None
        /\ magic_link[q] \in records
        /\ auditLog = <<>> /\ loginLog = <<>>

AuditCount(action) ==
    Cardinality({i \in 1..Len(auditLog) : auditLog[i].action = action})

(* the login rows created so far: one per issue request that got that far *)
RecordsCreated ==
    Cardinality({q \in Requests : \E uuid \in Uuids : IssuedBy(q, uuid)})

(* every succeeded accept has one "magic link accepted" audit entry and one *)
(* MAGIC_LINK login entry for the owner of its row, every succeeded decline *)
(* one "magic link declined" audit entry and no login entry; an accept      *)
(* between its two log writes has its login entry only                      *)
OneEntryPerSuccess ==
    /\ AuditCount("magic link accepted") =
           Cardinality({r \in Requests : Succeeded(r) /\ args[r].view = "accept"})
    /\ AuditCount("magic link declined") =
           Cardinality({r \in Requests : Succeeded(r) /\ args[r].view = "decline"})
    /\ Len(auditLog) = AuditCount("magic link accepted") + AuditCount("magic link declined")
    /\ Len(loginLog) =
           Cardinality({r \in Requests : /\ args[r].view = "accept"
                                         /\ \/ Succeeded(r)
                                            \/ pc[r] = "audit"})
    /\ \A i \in 1..Len(loginLog) : loginLog[i].service = "MAGIC_LINK"
    /\ \A r \in Requests :
          Succeeded(r) =>
              /\ \E i \in 1..Len(auditLog) :
                    auditLog[i] = [user |-> magic_link[r].user,
                                   action |-> IF args[r].view = "accept"
                                              THEN "magic link accepted"
                                              ELSE "magic link declined"]
              /\ args[r].view = "accept" =>
                    \E i \in 1..Len(loginLog) : loginLog[i].user = magic_link[r].user

(* C15: every successful accept appends exactly one "magic link accepted"   *)
(* audit entry and exactly one MAGIC_LINK login entry for the owner, every  *)
(* successful decline exactly one "magic link declined" audit entry and no  *)
(* login entry; and the accepted and declined audit entries together never  *)
(* outnumber the rows ever created.                                         *)
C15_AuditBoundedByRecords ==
    /\ OneEntryPerSuccess
    /\ Len(auditLog) <= RecordsCreated

(* request r runs magic_link.delete() in this step, on the success path of *)
(* accept or decline                                                       *)
Deletes(r) ==
    /\ pc[r] = "delete" /\ pc'[r] \in {"loginlog", "audit"}
    /\ args[r].view \in {"accept", "decline"}
    /\ verdict[r] = <<TRUE, "">>

(* C16: life of a row.  A row enters the table only in the step of an issue *)
(* request that got past the guards for the email of an existing active     *)
(* account, as a "login" row of that account; a row leaves the table only   *)
(* in the delete step of an accept or decline whose check succeeded and     *)
(* that addressed it; a row that stays keeps its owner, service, token hash *)
(* and expiry; and the clock passing the expiry removes nothing.            *)
C16_Lifecycle ==
    [][/\ \A m \in records' \ records :
             \E r \in Requests :
                 /\ IssuesForActive(r)
                 /\ m = magic_link'[r]
                 /\ m.service = "login"
                 /\ m.user = UserByEmail(args'[r].email)
                 /\ m.token = make_password(plain_token'[r])
       /\ \A m \in records \ records' :
             \E r \in Requests :
                 /\ Deletes(r)
                 /\ magic_link[r] = m
                 /\ args[r].uuid = m.uuid
       /\ \A m \in records, m2 \in records' : m.uuid = m2.uuid => m = m2
       /\ now' # now => records' = records]_vars

(* one row created and deleted by an accept, another created, never         *)
(* resolved, past its expiry and still in the table as it was created       *)
C16_Witness ==
    \E q1, q2, r \in Requests :
        /\ IssuedBy(q1, args[r].uuid)
        /\ Succeeded(r) /\ args[r].view = "accept"
        /\ magic_link[q1] \notin records
        /\ args[q2].view = "issue" /\ pc[q2] = "done" /\ q2 # q1
        /\ magic_link[q2] \in records
        /\ magic_link[q2].service = "login"
        /\ now >= magic_link[q2].expiry

(* C17: the delete of a successful accept or decline removes the addressed  *)
(* row and no other: every other row, of the same account or not, is in the *)
(* table afterwards as it was before, is found under its own identifier and *)
(* is judged with the token of its own issue request as it was before the   *)
(* delete: valid, if its expiry has not been reached.                       *)
C17_OthersUntouched ==
    [][\A r \in Requests :
          Deletes(r) =>
              /\ records' = records \ {magic_link[r]}
              /\ \A m \in records :
                    m.uuid # args[r].uuid =>
                        /\ m \in records'
                        /\ m.service = "login" => (get_magic_link(m.uuid))' = m
                        /\ \A q \in Requests :
                              IssuedBy(q, m.uuid) =>
                                  (is_magiclink_valid(get_magic_link(m.uuid),
                                                      plain_token[q], now))'
                                    = IF now < m.expiry
                                      THEN <<TRUE, "">>
                                      ELSE <<FALSE, MSG_EXPIRED>>]_vars

(* two unexpired links of one account, one accepted, the other still there *)
C17_Witness ==
    \E q1, q2, r \in Requests :
        /\ q1 # q2
        /\ IssuedBy(q1, args[r].uuid)
        /\ args[q2].view = "issue" /\ pc[q2] = "done" /\ magic_link[q2] # NoLink
        /\ magic_link[q1].user = magic_link[q2].user
        /\ Succeeded(r)
        /\ magic_link[q1] \notin records
        /\ magic_link[q2] \in records
        /\ now < magic_link[q2].expiry

MagicLinkViews == {"issue", "waiting", "verify", "accept", "decline"}

(* request r arrives in this step from a caller its view turns away: an    *)
(* authenticated caller at any of the five views, or an anonymous caller   *)
(* without htmx at issue, accept or decline                                *)
TurnedAway(r) ==
    /\ Arrives(r)
    /\ args'[r].view \in MagicLinkViews
    /\ \/ session'[r] # None
       \/ args'[r].view \in {"issue", "accept", "decline"} /\ ~args'[r].htmx

(* C18: a request from an authenticated caller to the issue, waiting,       *)
(* verify, accept or decline view, and a request without htmx to the issue, *)
(* accept or decline view, is answered in its one step with a redirect that *)
(* carries no message, before the view reads identifier, token or email:    *)
(* no row is created or deleted, no email sent, no audit or login entry     *)
(* written, no lookup or check made, and no session of another request      *)
(* touched, whatever rows the table holds.                                  *)
C18_TurnedAwayNoEffect ==
    [][\A r \in Requests :
          TurnedAway(r) =>
              /\ pc'[r] = "done"
              /\ response'[r].type = "redirect"
              /\ response'[r].to = IF args'[r].view \in {"issue", "waiting"} /\ session'[r] = None
                                   THEN "auth:login"
                                   ELSE "dashboard"
              /\ response'[r].message = ""
              /\ args'[r].uuid = 0 /\ args'[r].token = 0 /\ args'[r].email = ""
              /\ UNCHANGED <<records, nextUuid, outbox, auditLog, loginLog>>
              /\ UNCHANGED <<magic_link, verdict, user, plain_token>>
              /\ \A q \in Requests : q # r => session'[q] = session[q]]_vars

(* while a valid link waits in the table: an accept from an authenticated  *)
(* caller and a decline without htmx, both redirected, the row still there *)
C18_Witness ==
    \E q, r1, r2 \in Requests :
        /\ args[q].view = "issue" /\ pc[q] = "done" /\ magic_link[q] # NoLink
        /\ q < r1 /\ q < r2
        /\ args[r1].view = "accept" /\ session[r1] # None
        /\ args[r2].view = "decline" /\ session[r2] = None /\ ~args[r2].htmx
        /\ response[r1] = Redirect("dashboard", "", "")
        /\ response[r2] = Redirect("dashboard", "", "")
        /\ magic_link[q] \in records
        /\ now < magic_link[q].expiry
        /\ auditLog = <<>> /\ loginLog = <<>> /\ Len(outbox) = 1

LoginDone(r) == args[r].view = "login_manual" /\ pc[r] = "done"

(* the URLs of the login page that carry some email and some next value *)
LoginPageUrls ==
    {reverse("auth:login") \o "?email=" \o e \o "&next=" \o n :
        e \in PostedEmails, n \in NextUrls \cup {reverse("dashboard")}}

(* C19: a login_manual request ends with a session only if the email was    *)
(* given and well formed, the password was given, authenticate returned an  *)
(* account (the session is then that account's) and it is not the case that *)
(* the account awaits email verification while emails are enabled; every    *)
(* other request ends without a session, with a redirect to the login page  *)
(* and an error message.                                                    *)
C19_LoginOnlyWhenAllowed ==
    \A r \in Requests :
        LoginDone(r) =>
            /\ session[r] # None =>
                  /\ args[r].email # "" /\ args[r].email \in Emails
                  /\ args[r].password # ""
                  /\ user[r] # None
                  /\ user[r] \in authenticate(args[r].email, args[r].password)
                  /\ session[r] = user[r]
                  /\ ~(AwaitingEmailVerification[user[r]] /\ args[r].emails_enabled)
            /\ session[r] = None =>
                  /\ response[r].type = "redirect"
                  /\ response[r].to \in LoginPageUrls
                  /\ response[r].level = "error"
                  /\ response[r].message # ""

(* an account awaiting verification turned away with emails enabled and    *)
(* let in with emails disabled, and a wrong password turned away           *)
C19_Witness ==
    \E r1, r2, r3 \in Requests :
        /\ LoginDone(r1) /\ LoginDone(r2) /\ LoginDone(r3)
        /\ args[r1].email = "bob@x" /\ args[r1].password = "pw"
        /\ args[r1].emails_enabled
        /\ session[r1] = None /\ response[r1].message = MSG_MUST_VERIFY
        /\ args[r2].email = "bob@x" /\ args[r2].password = "pw"
        /\ ~args[r2].emails_enabled
        /\ session[r2] = "bob"
        /\ args[r3].email = "alice@x" /\ args[r3].password = "wrong"
        /\ session[r3] = None /\ response[r3].message = MSG_INCORRECT

(* C20: where login_manual sends the caller.  After a login: to the change- *)
(* password page if the account must change its password, else to the next  *)
(* value if it passes url_has_allowed_host_and_scheme and resolves to a     *)
(* route, else to the dashboard.  After a failure: to the login page, whose  *)
(* next parameter is the next value if it passes the test and the dashboard *)
(* URL if not.  A next value that fails the test is neither the target of   *)
(* the redirect nor the next parameter of the login page.                   *)
C20_NextSanitized ==
    \A r \in Requests :
        LoginDone(r) =>
            LET next == args[r].next
                \* the posted values that are local paths, and the one with a route
                ok == next \in {"/dashboard/invoices/", "/no/such/route/"}
                routed == next = "/dashboard/invoices/"
            IN /\ response[r].type = "redirect"
               /\ session[r] # None =>
                     response[r].to =
                         IF RequireChangePassword[session[r]] THEN "settings:change_password"
                         ELSE IF ok /\ routed THEN next
                         ELSE "dashboard"
               /\ session[r] = None =>
                     \E e \in {"", args[r].email} :
                         response[r].to = reverse("auth:login") \o "?email=" \o e \o "&next="
                                            \o (IF ok THEN next ELSE reverse("dashboard"))
               /\ ~ok =>
                     /\ response[r].to # next
                     /\ \A e \in PostedEmails :
                           response[r].to # reverse("auth:login") \o "?email=" \o e
                                              \o "&next=" \o next

(* a failed login with a next on another host, a login with a next without *)
(* a route, a login with a next that has one                               *)
C20_Witness ==
    \E r1, r2, r3 \in Requests :
        /\ LoginDone(r1) /\ LoginDone(r2) /\ LoginDone(r3)
        /\ args[r1].next = "https://evil.example/" /\ session[r1] = None
        /\ response[r1].to = "/auth/login/?email=alice@x&next=/dashboard/"
        /\ args[r2].next = "/no/such/route/" /\ session[r2] = "alice"
        /\ response[r2].to = "dashboard"
        /\ args[r3].next = "/dashboard/invoices/" /\ session[r3] = "alice"
        /\ response[r3].to = "/dashboard/invoices/"

====
